---- MODULE Spec2Model ----
(***************************************************************************)
(* Budget planner: the ledger and archival engine.                         *)
(*                                                                         *)
(* The repository holds two versions of the page script.                   *)
(*   src/unnamed/part_000  global applicationState, archival on payday     *)
(*   src/app.js            global state, default categories, no archival   *)
(* A page loads exactly one of them; the variable script says which, and   *)
(* the state object of the other one stays at its declared default.        *)
(*                                                                         *)
(* A number read from a text field, and every field of the state that      *)
(* holds one (budget, amounts, payday), is counted in tenths, so that 4.5   *)
(* is the integer 45; num(n) is the whole number n.                         *)
(* A Date is the record [year, month, date, hours] of plain integers, with  *)
(* month 0-based as in JavaScript; the clock is read at noon.               *)
(***************************************************************************)
EXTENDS Integers, Sequences, FiniteSets, TLC

VARIABLES
  script,            \* which script the page runs: "part_000" or "app.js"
  today,             \* the wall clock, what new Date() returns
  applicationState,  \* part_000: let applicationState
  state,             \* app.js:   let state
  localStorage,      \* the persisted blob under STORAGE_KEY, or NoItem
  call               \* the last handler that ran and the message it showed

vars == <<script, today, applicationState, state, localStorage, call>>

(***************************************************************************)
(* Bounds of the model.  The handlers are run under four sets of inputs:    *)
(* Spec runs the whole of part_000, archival and clock included, on few     *)
(* texts; SpecLedger runs the ledger and the category registry of both      *)
(* scripts on more texts, at one date; SpecForms runs the handlers of both  *)
(* scripts that read a text field, on texts to take and texts to refuse;    *)
(* SpecStore runs both scripts with the page loaded again at any time.      *)
(***************************************************************************)
\* Transactions held at a time, live and in archive snapshots together.
MaxTransactions == 1
LedgerMaxTransactions == 2
\* Categories the user adds to those the script starts with.
MaxCategories == 1
LedgerMaxCategories == 2
MaxArchives == 2
\* Months the clock runs through.
MaxMonths == 2

\* The clock starts in December so that the bounded run crosses a year end.
StartYear == 2025
StartMonth == 11

\* Days of the month at which the clock is read.
ClockDays == {4, 5}

\* What Math.random().toString(36).slice(2, 9) may return.
RandomTails == {"k3x9q2a", "p0m4z7w"}

\* Answers to a confirm dialog.
ConfirmAnswers == {"ok", "cancel"}

\* The texts typed and the sizes allowed under Spec.
Inputs ==
  [names |-> {"B"},
   prompts |-> {" A "},
   descriptions |-> {" Coffee "},
   amounts |-> {"5"},
   budgets |-> {"1000"},
   paydays |-> {"4", "5"},
   tails |-> {"k3x9q2a"},
   maxTransactions |-> MaxTransactions,
   maxCategories |-> MaxCategories,
   maxArchives |-> MaxArchives]

\* The texts typed and the sizes allowed under SpecLedger.
LedgerInputs ==
  [names |-> {"", " ", " A ", "B"},
   prompts |-> {"", " ", " A ", "B"},
   descriptions |-> {"", " Coffee "},
   amounts |-> {"abc", "5"},
   budgets |-> {},
   paydays |-> {},
   tails |-> RandomTails,
   maxTransactions |-> LedgerMaxTransactions,
   maxCategories |-> LedgerMaxCategories,
   maxArchives |-> 0]

\* Transactions and added categories under SpecForms.
FormMaxTransactions == 1
FormMaxCategories == 1

\* The texts typed and the sizes allowed under SpecForms: every field gets
\* texts it should take and texts it should refuse.
FormInputs ==
  [names |-> {"B"},
   prompts |-> {" A "},
   descriptions |-> {"", " ", " Coffee "},
   amounts |-> {"abc", "-5", "0", "5"},
   budgets |-> {"abc", "-5", "1000"},
   paydays |-> {"abc", "0", "4.5", "5", "29"},
   tails |-> {"k3x9q2a"},
   maxTransactions |-> FormMaxTransactions,
   maxCategories |-> FormMaxCategories,
   maxArchives |-> 0]

\* Transactions, added categories and archive records under SpecStore.
StoreMaxTransactions == 1
StoreMaxCategories == 1
StoreMaxArchives == 1

\* The texts typed and the sizes allowed under SpecStore; "4" is the day of
\* the month its clock shows.
StoreInputs ==
  [names |-> {"B"},
   prompts |-> {},
   descriptions |-> {" Coffee "},
   amounts |-> {"5"},
   budgets |-> {"1000"},
   paydays |-> {"4"},
   tails |-> {"k3x9q2a"},
   maxTransactions |-> StoreMaxTransactions,
   maxCategories |-> StoreMaxCategories,
   maxArchives |-> StoreMaxArchives]

\* Transactions (live and in archive snapshots together), added categories
\* and archive records under SpecMissed.
MissedMaxTransactions == 2
MissedMaxCategories == 1
MissedMaxArchives == 2

\* The texts typed and the sizes allowed under SpecMissed: the payday is set
\* to 5, a day the clock shows in each of its months.
MissedInputs ==
  [names |-> {"B"},
   prompts |-> {},
   descriptions |-> {" Coffee "},
   amounts |-> {"5"},
   budgets |-> {"1000"},
   paydays |-> {"5"},
   tails |-> RandomTails,
   maxTransactions |-> MissedMaxTransactions,
   maxCategories |-> MissedMaxCategories,
   maxArchives |-> MissedMaxArchives]

\* Transactions (live and in archive snapshots together), added categories
\* and archive records under SpecLive.
LiveMaxTransactions == 1
LiveMaxCategories == 1
LiveMaxArchives == 2

\* The days of the month the clock of SpecLive shows, one after the other, in
\* each of its months: every whole payday in use under SpecLive is one of them.
LiveClockDays == {1, 4, 5}

\* The texts typed and the sizes allowed under SpecLive.
LiveInputs ==
  [names |-> {"B"},
   prompts |-> {},
   descriptions |-> {" Coffee "},
   amounts |-> {"5"},
   budgets |-> {"1000"},
   paydays |-> {"4", "4.5", "5"},
   tails |-> {"k3x9q2a"},
   maxTransactions |-> LiveMaxTransactions,
   maxCategories |-> LiveMaxCategories,
   maxArchives |-> LiveMaxArchives]

\* Names passed to the functions of app.js that take a category name.
Names == {"A", "B", "Sonstiges"}

(***************************************************************************)
(* JavaScript values and library functions.                                *)
(***************************************************************************)
\* null, as lastArchivePeriodId before the first archive.
null == "null"

\* NaN.  Every use below tests isNaN (or falsiness) before it compares, as the
\* code does, so the number itself never enters arithmetic.
NaN == 0 - 1000000

isNaN(v) == v = NaN

\* !v for a number.
Falsy(v) == isNaN(v) \/ v = 0

\* The whole number n, in tenths.
num(n) == n * 10

\* The integer part of a number v >= 0: ToIntegerOrInfinity, as the Date
\* constructor applies it to its arguments.
ToInteger(v) == v \div 10

\* The decimal texts the model types, with their values.
Numerals ==
  [s \in {"-5", "0", "4", "4.5", "5", "29", "1000"} |->
     CASE s = "-5" -> 0 - num(5)
       [] s = "0" -> 0
       [] s = "4" -> num(4)
       [] s = "4.5" -> num(4) + 5
       [] s = "5" -> num(5)
       [] s = "29" -> num(29)
       [] s = "1000" -> num(1000)]

\* parseFloat(text): the numeral the text starts with, else NaN.
parseFloat(s) ==
  IF s \in DOMAIN Numerals THEN Numerals[s] ELSE NaN

\* Number(text): the whole text must be a numeral; the empty text is 0.
Number(s) ==
  IF s \in DOMAIN Numerals THEN Numerals[s]
  ELSE IF s \in {"", " "} THEN 0
  ELSE NaN

\* String.prototype.trim on the texts of the model.
trim(s) ==
  CASE s = " " -> ""
    [] s = " A " -> "A"
    [] s = " Coffee " -> "Coffee"
    [] OTHER -> s

\* String.prototype.padStart(targetLength, padString), padString one character.
RECURSIVE padStart(_, _, _)
padStart(s, targetLength, padString) ==
  IF Len(s) >= targetLength THEN s
  ELSE padStart(padString \o s, targetLength, padString)

\* Array.prototype.indexOf, 0-based, -1 when absent.
indexOf(array, x) ==
  IF \E i \in 1..Len(array) : array[i] = x
  THEN (CHOOSE i \in 1..Len(array) :
          array[i] = x /\ \A j \in 1..(i - 1) : array[j] # x) - 1
  ELSE 0 - 1

Range(array) == {array[i] : i \in 1..Len(array)}

\* new Date(year, month, date, 0, 0, 0, 0) for date in 1..28: a month outside
\* 0..11 carries into the year.  A Date is kept to the hour, in local time.
NewDate(year, month, date) ==
  [year |-> year + ((month - (month % 12)) \div 12),
   month |-> month % 12,
   date |-> date,
   hours |-> 0]

\* a < b for two Dates.
DateBefore(a, b) ==
  \/ a.year < b.year
  \/ a.year = b.year /\ a.month < b.month
  \/ a.year = b.year /\ a.month = b.month /\ a.date < b.date
  \/ a.year = b.year /\ a.month = b.month /\ a.date = b.date /\ a.hours < b.hours

\* Date.prototype.toISOString and new Date(text) of such a text: the text is
\* told apart from the Date it encodes.
toISOString(date) == [iso |-> date]
NewDateOf(text) == text.iso

\* Days of a month, 0-based, of a year.
daysInMonth(year, month) ==
  IF month = 1
  THEN (IF year % 4 = 0 /\ (year % 100 # 0 \/ year % 400 = 0) THEN 29 ELSE 28)
  ELSE IF month \in {3, 5, 8, 10} THEN 30
  ELSE 31

\* prefix + Math.random().toString(36).slice(2, 9), r being the random part.
generateUniqueId(prefix, r) == prefix \o r

\* JSON.stringify and JSON.parse: the blob is a text, told apart from the
\* object it encodes.  Strings, finite numbers, arrays and plain objects, all
\* that the modelled state holds, are encoded and decoded field by field.
JSONstringify(object) == [json |-> object]
JSONparse(text) == text.json

\* A stored text that is no JSON, and whether JSON.parse of a text returns
\* (it throws a SyntaxError on a text that is no JSON).
CorruptItem == [corrupt |-> "{"]
parses(text) == "json" \in DOMAIN text

\* What JSON.stringify writes for a number: null for NaN, else the number.
jsonNumber(v) == IF isNaN(v) THEN null ELSE v

\* Date.prototype.toJSON, which JSON.stringify calls on a Date.
toJSON(date) == toISOString(date)

\* What JSON.stringify writes for a list of transactions.
jsonTransactions(transactions) ==
  [i \in 1..Len(transactions) |-> [transactions[i] EXCEPT !.amount = jsonNumber(@)]]

MonthShortNamesDe ==
  <<"Jan.", "Feb.", "Maerz", "Apr.", "Mai", "Juni", "Juli", "Aug.", "Sept.", "Okt.",
    "Nov.", "Dez.">>

\* date.toLocaleString('de-DE', { month: 'short', year: 'numeric' })
toLocaleShortMonthYear(date) ==
  MonthShortNamesDe[date.month + 1] \o " " \o ToString(date.year)

MonthNamesDe ==
  <<"Januar", "Februar", "Maerz", "April", "Mai", "Juni", "Juli", "August",
    "September", "Oktober", "November", "Dezember">>

\* date.toLocaleString('de-DE', { month: 'long', year: 'numeric' })
toLocaleMonthYear(date) ==
  MonthNamesDe[date.month + 1] \o " " \o ToString(date.year)

\* localStorage.getItem of a key never set.
NoItem == [item |-> "none"]

\* What a handler does: the state object it leaves, whether it wrote the state
\* to localStorage and the state object as it was at its last write, and the
\* one message it showed: says is "alert", "toast", "warn" (console.warn),
\* "error" (console.error) or "" for none; thrown tells whether it ended with
\* an exception reaching its caller, which no handler modelled here does.
Saved(object, says, text) ==
  [state |-> object, saved |-> TRUE, stored |-> object, says |-> says, text |-> text,
   thrown |-> FALSE]
Returned(object, says, text) ==
  [state |-> object, saved |-> FALSE, stored |-> object, says |-> says, text |-> text,
   thrown |-> FALSE]

\* The record kept of the last handler run.
Call(op, result) ==
  [op |-> op, says |-> result.says, text |-> result.text, thrown |-> result.thrown]

\* The instants at which the clock is read: noon of the clock days.
ClockDates ==
  {[NewDate(StartYear, StartMonth + k, d) EXCEPT !.hours = 12] :
     k \in 0..(MaxMonths - 1), d \in ClockDays}

(***************************************************************************)
(* src/unnamed/part_000                                                    *)
(***************************************************************************)
DefaultApplicationState ==
  [budgetAmount |-> 0,
   transactions |-> <<>>,
   categories |-> <<>>,
   payday |-> num(1),
   archivedPeriods |-> <<>>,
   lastArchivePeriodId |-> null]

\* computePeriodIdForDate with day > payday for day >= payday at line 480.
computePeriodIdAfterPayday(date, payday) ==
  LET year == date.year
      month == date.month
      day == date.date
      candidate == NewDate(year, month, ToInteger(payday))
      periodStart == IF num(day) > payday THEN candidate
                     ELSE NewDate(year, month - 1, ToInteger(payday))
      pidYear == periodStart.year
      pidMonth == padStart(ToString(periodStart.month + 1), 2, "0")
  IN  ToString(pidYear) \o "-" \o pidMonth

\* The period id, "YYYY-MM", of the period that holds date.
computePeriodIdOfCurrentMonth(date, payday) ==
  LET periodStart == NewDate(date.year, date.month, ToInteger(payday))
  IN  ToString(periodStart.year) \o "-"
        \o padStart(ToString(periodStart.month + 1), 2, "0")

computePeriodIdForDate(date, payday) ==
  LET year == date.year
      month == date.month
      day == date.date
      candidate == NewDate(year, month, ToInteger(payday))
      periodStart == IF num(day) >= payday THEN candidate
                     ELSE NewDate(year, month - 1, ToInteger(payday))
      pidYear == periodStart.year
      pidMonth == padStart(ToString(periodStart.month + 1), 2, "0")
  IN  ToString(pidYear) \o "-" \o pidMonth

\* JSON.parse(JSON.stringify(value)), the deep copy taken of an array.
deepCopy(array) == JSONparse(JSONstringify(array))

\* The archive entry with line 517 copying only the transactions made since
\* the payday of the month before now.
archiveEntryOfLastPeriod(s, now, r) ==
  [id |-> "arch_" \o generateUniqueId("arch_", r),
   label |-> toLocaleMonthYear(now),
   dateArchived |-> toISOString(now),
   budgetAtArchive |-> s.budgetAmount,
   transactionsSnapshot |->
     deepCopy(SelectSeq(s.transactions,
                        LAMBDA tx : ~DateBefore(NewDateOf(tx.date),
                                                NewDate(now.year, now.month - 1,
                                                        now.date)))),
   categoriesSnapshot |-> deepCopy(s.categories)]

\* The archive entry built from the live state s at the instant now.
archiveEntry(s, now, r) ==
  [id |-> "arch_" \o generateUniqueId("arch_", r),
   label |-> toLocaleMonthYear(now),
   dateArchived |-> toISOString(now),
   budgetAtArchive |-> s.budgetAmount,
   transactionsSnapshot |-> deepCopy(s.transactions),
   categoriesSnapshot |-> deepCopy(s.categories)]

\* applicationState.payday as archiveIfNeededAndPerformAutomatically reads it.
configuredPayday(s) == IF Falsy(s.payday) THEN num(1) ELSE s.payday

\* archiveIfNeededAndPerformAutomatically without line 526: the budget is kept.
archiveKeepingBudget(s, now, r) ==
  LET currentPeriodId == computePeriodIdForDate(now, configuredPayday(s)) IN
  IF num(now.date) # configuredPayday(s) THEN Returned(s, "", "")
  ELSE IF s.lastArchivePeriodId = currentPeriodId THEN Returned(s, "", "")
  ELSE Saved([s EXCEPT !.archivedPeriods = Append(@, archiveEntry(s, now, r)),
                       !.transactions = <<>>,
                       !.lastArchivePeriodId = currentPeriodId],
             "toast",
             "Budget archiviert fuer diese Periode. Die Budgetseite wurde zurueckgesetzt.")

\* archiveIfNeededAndPerformAutomatically without line 530: the sealed period
\* is not marked.
archiveWithoutMark(s, now, r) ==
  LET currentPeriodId == computePeriodIdForDate(now, configuredPayday(s)) IN
  IF num(now.date) # configuredPayday(s) THEN Returned(s, "", "")
  ELSE IF s.lastArchivePeriodId = currentPeriodId THEN Returned(s, "", "")
  ELSE Saved([s EXCEPT !.archivedPeriods = Append(@, archiveEntry(s, now, r)),
                       !.budgetAmount = 0,
                       !.transactions = <<>>],
             "toast",
             "Budget archiviert fuer diese Periode. Die Budgetseite wurde zurueckgesetzt.")

\* archiveIfNeededAndPerformAutomatically without lines 508-511: a period
\* already sealed is not declined.
archiveWithoutPeriodCheck(s, now, r) ==
  LET currentPeriodId == computePeriodIdForDate(now, configuredPayday(s)) IN
  IF num(now.date) # configuredPayday(s) THEN Returned(s, "", "")
  ELSE Saved([s EXCEPT !.archivedPeriods = Append(@, archiveEntry(s, now, r)),
                       !.budgetAmount = 0,
                       !.transactions = <<>>,
                       !.lastArchivePeriodId = currentPeriodId],
             "toast",
             "Budget archiviert fuer diese Periode. Die Budgetseite wurde zurueckgesetzt.")

\* archiveIfNeededAndPerformAutomatically with lines 522-523 assigning
\* [archiveEntry] for pushing it: the earlier records are dropped.
archiveReplacingArchives(s, now, r) ==
  LET currentPeriodId == computePeriodIdForDate(now, configuredPayday(s)) IN
  IF num(now.date) # configuredPayday(s) THEN Returned(s, "", "")
  ELSE IF s.lastArchivePeriodId = currentPeriodId THEN Returned(s, "", "")
  ELSE Saved([s EXCEPT !.archivedPeriods = <<archiveEntry(s, now, r)>>,
                       !.budgetAmount = 0,
                       !.transactions = <<>>,
                       !.lastArchivePeriodId = currentPeriodId],
             "toast",
             "Budget archiviert fuer diese Periode. Die Budgetseite wurde zurueckgesetzt.")

\* archiveIfNeededAndPerformAutomatically with line 533 moved up to follow
\* line 523: the state is written once the entry is pushed, before the reset
\* and the mark.
archiveSavingAfterPush(s, now, r) ==
  LET currentPeriodId == computePeriodIdForDate(now, configuredPayday(s))
      pushed == [s EXCEPT !.archivedPeriods = Append(@, archiveEntry(s, now, r))]
  IN
  IF num(now.date) # configuredPayday(s) THEN Returned(s, "", "")
  ELSE IF s.lastArchivePeriodId = currentPeriodId THEN Returned(s, "", "")
  ELSE [state |-> [pushed EXCEPT !.budgetAmount = 0,
                                 !.transactions = <<>>,
                                 !.lastArchivePeriodId = currentPeriodId],
        saved |-> TRUE,
        stored |-> pushed,
        says |-> "toast",
        thrown |-> FALSE,
        text |-> "Budget archiviert fuer diese Periode. Die Budgetseite wurde zurueckgesetzt."]

\* archiveIfNeededAndPerformAutomatically without lines 501-503: the day of
\* the month is not compared with the payday.
archiveOnAnyDay(s, now, r) ==
  LET currentPeriodId == computePeriodIdForDate(now, configuredPayday(s)) IN
  IF s.lastArchivePeriodId = currentPeriodId THEN Returned(s, "", "")
  ELSE Saved([s EXCEPT !.archivedPeriods = Append(@, archiveEntry(s, now, r)),
                       !.budgetAmount = 0,
                       !.transactions = <<>>,
                       !.lastArchivePeriodId = currentPeriodId],
             "toast",
             "Budget archiviert fuer diese Periode. Die Budgetseite wurde zurueckgesetzt.")

\* archiveIfNeededAndPerformAutomatically with the reset of lines 526-527 also
\* emptying the categories.
archiveClearingCategories(s, now, r) ==
  LET currentPeriodId == computePeriodIdForDate(now, configuredPayday(s)) IN
  IF num(now.date) # configuredPayday(s) THEN Returned(s, "", "")
  ELSE IF s.lastArchivePeriodId = currentPeriodId THEN Returned(s, "", "")
  ELSE Saved([s EXCEPT !.archivedPeriods = Append(@, archiveEntry(s, now, r)),
                       !.budgetAmount = 0,
                       !.transactions = <<>>,
                       !.categories = <<>>,
                       !.lastArchivePeriodId = currentPeriodId],
             "toast",
             "Budget archiviert fuer diese Periode. Die Budgetseite wurde zurueckgesetzt.")

\* archiveIfNeededAndPerformAutomatically, called at the instant now; r is the
\* random part of the archive id.
archiveIfNeededAndPerformAutomatically(s, now, r) ==
  LET currentPeriodId == computePeriodIdForDate(now, configuredPayday(s)) IN
  IF num(now.date) # configuredPayday(s) THEN Returned(s, "", "")
  ELSE IF s.lastArchivePeriodId = currentPeriodId THEN Returned(s, "", "")
  ELSE Saved([s EXCEPT !.archivedPeriods = Append(@, archiveEntry(s, now, r)),
                       !.budgetAmount = 0,
                       !.transactions = <<>>,
                       !.lastArchivePeriodId = currentPeriodId],
             "toast",
             "Budget archiviert fuer diese Periode. Die Budgetseite wurde zurueckgesetzt.")

\* archiveIfNeededAndPerformAutomatically with lines 526-527 moved before the
\* archive entry is built, whose construction throws: the live state is
\* emptied and nothing is archived.
archiveEntryThrowsAfterReset(s, now, r) ==
  LET currentPeriodId == computePeriodIdForDate(now, configuredPayday(s)) IN
  IF num(now.date) # configuredPayday(s) THEN Returned(s, "", "")
  ELSE IF s.lastArchivePeriodId = currentPeriodId THEN Returned(s, "", "")
  ELSE Returned([s EXCEPT !.budgetAmount = 0, !.transactions = <<>>],
                "error", "Fehler beim automatischen Archivieren:")

\* archiveIfNeededAndPerformAutomatically when an expression of lines 513-520,
\* which build the archive entry, throws: control passes to the catch of line
\* 540 before line 522 is reached.
archiveEntryThrows(s, now, r) ==
  LET currentPeriodId == computePeriodIdForDate(now, configuredPayday(s)) IN
  IF num(now.date) # configuredPayday(s) THEN Returned(s, "", "")
  ELSE IF s.lastArchivePeriodId = currentPeriodId THEN Returned(s, "", "")
  ELSE Returned(s, "error", "Fehler beim automatischen Archivieren:")

\* The reduce of updateSummaryInUi and updateSummary: the sum of the amounts.
RECURSIVE totalSpent(_)
totalSpent(transactions) ==
  IF transactions = <<>> THEN 0
  ELSE totalSpent(SubSeq(transactions, 1, Len(transactions) - 1))
         + transactions[Len(transactions)].amount

\* updateSummaryInUi: the numbers it hands to formatAsCHF for #spentAmount and
\* #remainingAmount, and whether #remainingAmount gets the class red-alert.
updateSummaryInUi(s) ==
  LET remaining == s.budgetAmount - totalSpent(s.transactions) IN
  [spent |-> totalSpent(s.transactions),
   remaining |-> remaining,
   redAlert |-> remaining < num(200)]

\* handleAddCategory without line 649: a name already held is not refused.
handleAddCategoryUnchecked(s, input) ==
  LET name == trim(input) IN
  IF name = "" THEN Returned(s, "alert", "Bitte einen Kategorienamen eingeben.")
  ELSE Saved([s EXCEPT !.categories = Append(@, name)], "toast", "Kategorie hinzugefuegt")

\* handleAddCategory with input the text of #inputNewCategory.
handleAddCategory(s, input) ==
  LET name == trim(input) IN
  IF name = "" THEN Returned(s, "alert", "Bitte einen Kategorienamen eingeben.")
  ELSE IF indexOf(s.categories, name) # 0 - 1
  THEN Returned(s, "alert", "Kategorie existiert bereits.")
  ELSE Saved([s EXCEPT !.categories = Append(@, name)], "toast", "Kategorie hinzugefuegt")

\* The values the select #transactionCategory can hold: the one placeholder
\* option, value '', while there is no category, else one option per category.
transactionCategoryOptions(categories) ==
  IF Len(categories) = 0 THEN {""} ELSE Range(categories)

\* handleAddTransaction with the texts of #transactionDescription and
\* #transactionAmount and the value of #transactionCategory.
handleAddTransaction(s, descriptionInput, amountInput, category, now, r) ==
  LET desc == trim(descriptionInput)
      amount == parseFloat(amountInput)
      tx == [id |-> generateUniqueId("tx_", r),
             description |-> desc,
             amount |-> amount,
             category |-> category,
             date |-> toISOString(now)]
  IN
  IF desc = "" THEN Returned(s, "alert", "Bitte eine Beschreibung eingeben.")
  ELSE IF isNaN(amount) \/ amount <= 0
  THEN Returned(s, "alert", "Bitte einen gueltigen Betrag eingeben.")
  ELSE IF category = "" THEN Returned(s, "alert", "Bitte eine Kategorie auswaehlen.")
  ELSE Saved([s EXCEPT !.transactions = Append(@, tx)], "toast", "Ausgabe hinzugefuegt")

\* handleSaveBudget with input the text of #totalBudget.
handleSaveBudget(s, input) ==
  LET value == parseFloat(input) IN
  IF isNaN(value) \/ value < 0 THEN Returned(s, "alert", "Bitte gueltiges Budget eingeben.")
  ELSE Saved([s EXCEPT !.budgetAmount = value], "toast", "Budget gespeichert")

\* transactions.filter(t => t.id !== id)
withoutId(transactions, id) == SelectSeq(transactions, LAMBDA t : t.id # id)

\* handleDeleteTransactionById(id), confirm being the answer to its dialog.
handleDeleteTransactionById(s, id, confirm) ==
  IF confirm = "cancel" THEN Returned(s, "", "")
  ELSE Saved([s EXCEPT !.transactions = withoutId(@, id)], "toast", "Eintrag geloescht")

\* categories.map(c => c === oldName ? newName : c)
renamedCategories(categories, oldName, newName) ==
  [i \in 1..Len(categories) |->
     IF categories[i] = oldName THEN newName ELSE categories[i]]

\* recategorized without the assignment to tx.category: no cascade.
notRecategorized(transactions, oldName, newName) == transactions

\* transactions.forEach(tx => { if (tx.category === oldName) tx.category = newName })
recategorized(transactions, oldName, newName) ==
  [i \in 1..Len(transactions) |->
     IF transactions[i].category = oldName
     THEN [transactions[i] EXCEPT !.category = newName]
     ELSE transactions[i]]

\* Click on the [data-edit-cat] button of oldName; newName is the answer to the
\* prompt, null when it was cancelled.
editCategoryClick(s, oldName, newName) ==
  IF newName = null \/ newName = "" \/ trim(newName) = "" THEN Returned(s, "", "")
  ELSE Saved([s EXCEPT !.categories = renamedCategories(@, oldName, trim(newName)),
                       !.transactions = recategorized(@, oldName, trim(newName))],
             "toast", "Kategorie umbenannt")

\* deleteCategoryClick that also pushes 'Sonstiges' when the registry lacks it.
deleteCategoryClickAddingFallback(s, nameToDelete, confirm) ==
  LET left == SelectSeq(s.categories, LAMBDA c : c # nameToDelete) IN
  IF nameToDelete = "" THEN Returned(s, "", "")
  ELSE IF confirm = "cancel" THEN Returned(s, "", "")
  ELSE Saved([s EXCEPT !.categories = IF "Sonstiges" \in Range(left) THEN left
                                      ELSE Append(left, "Sonstiges"),
                       !.transactions = recategorized(@, nameToDelete, "Sonstiges")],
             "toast", "Kategorie geloescht")

\* Click on the [data-delete-cat] button of nameToDelete.
deleteCategoryClick(s, nameToDelete, confirm) ==
  IF nameToDelete = "" THEN Returned(s, "", "")
  ELSE IF confirm = "cancel" THEN Returned(s, "", "")
  ELSE Saved([s EXCEPT !.categories = SelectSeq(@, LAMBDA c : c # nameToDelete),
                       !.transactions = recategorized(@, nameToDelete, "Sonstiges")],
             "toast", "Kategorie geloescht")

\* A reset of the history that drops the sealed records as well.
resetHistoryClickClearingArchives(s, confirm) ==
  IF confirm = "cancel" THEN Returned(s, "", "")
  ELSE Saved([s EXCEPT !.transactions = <<>>, !.archivedPeriods = <<>>],
             "toast", "Verlauf geloescht")

\* Click on #buttonResetHistory.
resetHistoryClick(s, confirm) ==
  IF confirm = "cancel" THEN Returned(s, "", "")
  ELSE Saved([s EXCEPT !.transactions = <<>>], "toast", "Verlauf geloescht")

\* Click on #buttonSavePayday (settings) with input the text of #inputPayday.
savePaydayClick(s, input) ==
  LET v == Number(input) IN
  IF Falsy(v) \/ v < num(1) \/ v > num(28)
  THEN Returned(s, "alert", "Zahltag bitte zwischen 1 und 28 eingeben.")
  ELSE Saved([s EXCEPT !.payday = v], "toast", "Zahltag gespeichert")

\* Click on #modalPaydaySave (first-run dialog) with the text of #modalPaydayInput.
modalPaydaySaveClick(s, input) ==
  LET v == Number(input) IN
  IF Falsy(v) \/ v < num(1) \/ v > num(28)
  THEN Returned(s, "alert", "Bitte einen Zahltag zwischen 1 und 28 eingeben.")
  ELSE Saved([s EXCEPT !.payday = v], "toast",
             "Zahltag gespeichert. Die Archivierung erfolgt jeweils am gewaehlten Tag.")

(***************************************************************************)
(* src/app.js                                                              *)
(***************************************************************************)
DefaultState ==
  [budget |-> 0,
   transactions |-> <<>>,
   categories |-> <<>>,
   payday |-> num(1),
   savedRecords |-> <<>>]

DefaultCategories ==
  <<"Handyabo", "Fonds", "Eltern", "Verpflegung", "Frisoer", "Sparen",
    "Geschenke", "Sonstiges">>

\* loadState: the stored blob, if any, is merged over st; then the categories
\* and the payday are made valid.
loadState(st, raw) ==
  LET merged == IF raw = NoItem \/ ~parses(raw) THEN st
                ELSE [k \in DOMAIN st |->
                        IF k \in DOMAIN JSONparse(raw) THEN JSONparse(raw)[k] ELSE st[k]]
      withCategories == IF Len(merged.categories) = 0
                        THEN [merged EXCEPT !.categories = DefaultCategories]
                        ELSE merged
  IN  IF Falsy(withCategories.payday) \/ withCategories.payday < num(1)
         \/ withCategories.payday > num(28)
      THEN [withCategories EXCEPT !.payday = num(1)]
      ELSE withCategories

\* updateSummary: the numbers it hands to fmtCHF for #spent and #remaining, and
\* whether #remaining gets the class red-alert.
updateSummary(st) ==
  LET remaining == st.budget - totalSpent(st.transactions) IN
  [spent |-> totalSpent(st.transactions),
   remaining |-> remaining,
   redAlert |-> remaining < num(200)]

\* periodStartForDate(d, payday): the payday at or before d.
periodStartForDate(d, payday) ==
  LET day == IF Falsy(payday) THEN num(1) ELSE payday
      candidate == NewDate(d.year, d.month, ToInteger(day))
  IN  IF ~DateBefore(d, candidate) THEN candidate
      ELSE NewDate(candidate.year, candidate.month - 1, candidate.date)

\* next.setMonth(start.getMonth() + 1) on a copy of start.
nextMonth(start) ==
  [NewDate(start.year, start.month + 1, start.date) EXCEPT !.hours = start.hours]

\* end.setDate(end.getDate() - 1) on a copy of next: day 0 is the last day of
\* the month before.
dayBefore(next) ==
  IF next.date > 1 THEN [next EXCEPT !.date = @ - 1]
  ELSE LET previous == NewDate(next.year, next.month - 1, 1)
       IN  [previous EXCEPT !.date = daysInMonth(previous.year, previous.month),
                            !.hours = next.hours]

\* The periods computeSavedRecords builds in its while loop, from start up to
\* the period that holds now.
RECURSIVE periodsUpTo(_, _)
periodsUpTo(start, now) ==
  IF DateBefore(now, start) THEN <<>>
  ELSE <<[start |-> start,
          end |-> dayBefore(nextMonth(start)),
          label |-> toLocaleShortMonthYear(start)]>>
         \o periodsUpTo(nextMonth(start), now)

\* The sum computeSavedRecords takes of the amounts dated from start to end.
RECURSIVE spentWithin(_, _, _)
spentWithin(transactions, start, end) ==
  IF transactions = <<>> THEN 0
  ELSE LET t == Head(transactions)
           d == NewDateOf(t.date)
       IN  (IF ~DateBefore(d, start) /\ ~DateBefore(end, d) THEN t.amount ELSE 0)
             + spentWithin(Tail(transactions), start, end)

\* computeSavedRecords() called at the instant now, as far as it changes state:
\* with no transaction it returns its one record and stores nothing.
computeSavedRecords(st, now) ==
  IF Len(st.transactions) = 0 THEN st
  ELSE
    LET payday == IF Falsy(st.payday) THEN num(1) ELSE st.payday
        dates == {NewDateOf(st.transactions[i].date) : i \in 1..Len(st.transactions)}
        earliest == CHOOSE d \in dates : \A e \in dates : ~DateBefore(e, d)
        periods == periodsUpTo(periodStartForDate(earliest, payday), now)
        records == [i \in 1..Len(periods) |->
                      [label |-> periods[i].label,
                       start |-> periods[i].start,
                       end |-> periods[i].end,
                       saved |-> st.budget
                                   - spentWithin(st.transactions, periods[i].start,
                                                 periods[i].end)]]
    IN  [st EXCEPT !.savedRecords = records]

\* showTab(tabId) called at the instant now, as far as it touches the state:
\* the tab of the saved records computes them, which stores them in the state
\* and writes the state when there are transactions.
showTab(st, tabId, now) ==
  IF tabId = "saved" /\ Len(st.transactions) > 0
  THEN Saved(computeSavedRecords(st, now), "", "")
  ELSE Returned(st, "", "")

\* addTransaction(desc, amount, category) called at the instant now.
addTransaction(st, desc, amount, category, now, r) ==
  LET amt == Number(amount)
      tx == [id |-> generateUniqueId("t_", r),
             desc |-> desc,
             amount |-> amt,
             category |-> IF category = "" THEN "Sonstiges" ELSE category,
             date |-> toISOString(now)]
  IN
  IF desc = "" \/ isNaN(amt)
  THEN Returned(st, "warn", "Ungueltiger Eintrag: Beschreibung und Betrag erforderlich.")
  ELSE Saved(computeSavedRecords([st EXCEPT !.transactions = Append(@, tx)], now), "", "")

deleteTransaction(st, id, now) ==
  Saved(computeSavedRecords([st EXCEPT !.transactions = withoutId(@, id)], now), "", "")

addCategory(st, name) ==
  LET n == trim(name) IN
  IF n = "" THEN Returned(st, "alert", "Bitte Namen eingeben")
  ELSE IF n \in Range(st.categories) THEN Returned(st, "alert", "Kategorie existiert bereits")
  ELSE Saved([st EXCEPT !.categories = Append(@, n)], "", "")

editCategory(st, oldName, newName, now) ==
  LET n == trim(newName)
      idx == indexOf(st.categories, oldName)
  IN
  IF n = "" THEN Returned(st, "alert", "Bitte Namen eingeben")
  ELSE IF idx = 0 - 1 THEN Returned(st, "", "")
  ELSE Saved(computeSavedRecords(
               [st EXCEPT !.categories = [@ EXCEPT ![idx + 1] = n],
                          !.transactions = recategorized(@, oldName, n)], now),
             "", "")

\* deleteCategory(name), confirm being the answer to its dialog.
deleteCategory(st, name, confirm, now) ==
  IF confirm = "cancel" THEN Returned(st, "", "")
  ELSE Saved(computeSavedRecords(
               [st EXCEPT !.categories = SelectSeq(@, LAMBDA c : c # name),
                          !.transactions = recategorized(@, name, "Sonstiges")], now),
             "", "")

\* Click on #saveBudget with input the text of #totalBudget.
saveBudget(st, input, now) ==
  LET v == IF Falsy(Number(input)) THEN 0 ELSE Number(input) IN
  Saved(computeSavedRecords([st EXCEPT !.budget = v], now), "", "")

\* Click on #savePayday with input the text of #paydayInput.
savePayday(st, input, now) ==
  LET pd == Number(input) IN
  IF Falsy(pd) \/ pd < num(1) \/ pd > num(28)
  THEN Returned(st, "alert", "Bitte Zahltag zwischen 1 und 28 eingeben")
  ELSE Saved(computeSavedRecords([st EXCEPT !.payday = pd], now), "alert",
             "Zahltag gespeichert")

\* Click on #resetHistory, confirm being the answer to its dialog.
resetHistory(st, confirm, now) ==
  IF confirm = "cancel" THEN Returned(st, "", "")
  ELSE Saved(computeSavedRecords([st EXCEPT !.transactions = <<>>], now), "", "")

(***************************************************************************)
(* The state machine.  Each step runs one handler on inputs taken from in. *)
(***************************************************************************)
\* Number of transactions applicationState holds, live and archived.
\* The text saveApplicationState writes: JSON.stringify(applicationState).
saveApplicationState(s) ==
  JSONstringify([s EXCEPT !.budgetAmount = jsonNumber(@),
                          !.payday = jsonNumber(@),
                          !.transactions = jsonTransactions(@)])

\* loadApplicationState on a page whose state object is s: the stored text,
\* if there is one, is parsed and its keys are assigned over s.
loadApplicationState(s, raw) ==
  IF raw = NoItem \/ ~parses(raw) THEN s
  ELSE [k \in DOMAIN s |->
          IF k \in DOMAIN JSONparse(raw) THEN JSONparse(raw)[k] ELSE s[k]]

\* The text saveState writes: JSON.stringify(state), the Dates of the saved
\* records through toJSON.
saveState(st) ==
  JSONstringify([st EXCEPT !.budget = jsonNumber(@),
                           !.payday = jsonNumber(@),
                           !.transactions = jsonTransactions(@),
                           !.savedRecords =
                             [i \in 1..Len(@) |->
                                [@[i] EXCEPT !.start = toJSON(@), !.end = toJSON(@),
                                             !.saved = jsonNumber(@)]]])

\* initializeApplication on a freshly loaded page, raw being the stored text:
\* the state is loaded over the defaults and the archival check is run.
initializeApplication(raw, now, r) ==
  archiveIfNeededAndPerformAutomatically(
    loadApplicationState(DefaultApplicationState, raw), now, r)

\* init of app.js on a freshly loaded page, raw being the stored text: the
\* state is loaded over the defaults and the saved records are computed, which
\* writes the state when there are transactions.
init(raw, now) ==
  LET loaded == loadState(DefaultState, raw) IN
  IF Len(loaded.transactions) = 0 THEN Returned(loaded, "", "")
  ELSE Saved(computeSavedRecords(loaded, now), "", "")

storedTransactions(s) ==
  LET RECURSIVE archivedCount(_)
      archivedCount(archives) ==
        IF archives = <<>> THEN 0
        ELSE Len(Head(archives).transactionsSnapshot) + archivedCount(Tail(archives))
  IN  Len(s.transactions) + archivedCount(s.archivedPeriods)

\* A handler of part_000 runs and leaves result.
part000(in, op, result) ==
  /\ script = "part_000"
  /\ \E done \in {result} :
       /\ storedTransactions(done.state) <= in.maxTransactions
       /\ Len(done.state.categories) <= in.maxCategories
       /\ Len(done.state.archivedPeriods) <= in.maxArchives
       /\ applicationState' = done.state
       /\ localStorage' = IF done.saved THEN saveApplicationState(done.stored)
                          ELSE localStorage
       /\ call' = Call(op, done)
  /\ UNCHANGED <<script, today, state>>

\* A handler of app.js runs and leaves result.
appjs(in, op, result) ==
  /\ script = "app.js"
  /\ \E done \in {result} :
       /\ Len(done.state.transactions) <= in.maxTransactions
       /\ Len(done.state.categories) <= Len(DefaultCategories) + in.maxCategories
       /\ state' = done.state
       /\ localStorage' = IF done.saved THEN saveState(done.stored) ELSE localStorage
       /\ call' = Call(op, done)
  /\ UNCHANGED <<script, today, applicationState>>

\* The tick: it runs to its end, or the construction of its archive entry
\* throws.
ArchiveStep(in) ==
  \E r \in in.tails, thrown \in BOOLEAN :
    part000(in, "archiveIfNeededAndPerformAutomatically",
            IF thrown THEN archiveEntryThrows(applicationState, today, r)
            ELSE archiveIfNeededAndPerformAutomatically(applicationState, today, r))

HandleAddCategoryStep(in) ==
  \E input \in in.names :
    part000(in, "handleAddCategory", handleAddCategory(applicationState, input))

HandleAddTransactionStep(in) ==
  \E descriptionInput \in in.descriptions, amountInput \in in.amounts,
     category \in transactionCategoryOptions(applicationState.categories),
     r \in in.tails :
    part000(in, "handleAddTransaction",
            handleAddTransaction(applicationState, descriptionInput, amountInput,
                                 category, today, r))

HandleSaveBudgetStep(in) ==
  \E input \in in.budgets :
    part000(in, "handleSaveBudget", handleSaveBudget(applicationState, input))

\* The ids generateUniqueId can have produced.
TransactionIds(prefix, tails) == {generateUniqueId(prefix, r) : r \in tails}

HandleDeleteTransactionByIdStep(in) ==
  \E id \in TransactionIds("tx_", in.tails), confirm \in ConfirmAnswers :
    part000(in, "handleDeleteTransactionById",
            handleDeleteTransactionById(applicationState, id, confirm))

\* The rendered category list has one edit and one delete button per category;
\* the prompt opens with the old name filled in.
EditCategoryClickStep(in) ==
  \E oldName \in Range(applicationState.categories) :
    \E newName \in in.prompts \cup {oldName, null} :
      part000(in, "editCategoryClick",
              editCategoryClick(applicationState, oldName, newName))

DeleteCategoryClickStep(in) ==
  \E nameToDelete \in Range(applicationState.categories), confirm \in ConfirmAnswers :
    part000(in, "deleteCategoryClick",
            deleteCategoryClick(applicationState, nameToDelete, confirm))

ResetHistoryClickStep(in) ==
  \E confirm \in ConfirmAnswers :
    part000(in, "resetHistoryClick", resetHistoryClick(applicationState, confirm))

SavePaydayClickStep(in) ==
  \E input \in in.paydays :
    part000(in, "savePaydayClick", savePaydayClick(applicationState, input))

ModalPaydaySaveClickStep(in) ==
  \E input \in in.paydays :
    part000(in, "modalPaydaySaveClick", modalPaydaySaveClick(applicationState, input))

AddTransactionStep(in) ==
  \E desc \in in.descriptions, amount \in in.amounts, category \in Names \cup {""},
     r \in in.tails :
    appjs(in, "addTransaction", addTransaction(state, desc, amount, category, today, r))

DeleteTransactionStep(in) ==
  \E id \in TransactionIds("t_", in.tails) :
    appjs(in, "deleteTransaction", deleteTransaction(state, id, today))

AddCategoryStep(in) ==
  \E name \in in.names : appjs(in, "addCategory", addCategory(state, name))

EditCategoryStep(in) ==
  \E oldName \in Names, newName \in in.prompts :
    appjs(in, "editCategory", editCategory(state, oldName, newName, today))

DeleteCategoryStep(in) ==
  \E name \in Names, confirm \in ConfirmAnswers :
    appjs(in, "deleteCategory", deleteCategory(state, name, confirm, today))

ResetHistoryStep(in) ==
  \E confirm \in ConfirmAnswers :
    appjs(in, "resetHistory", resetHistory(state, confirm, today))

SaveBudgetStep(in) ==
  \E input \in in.budgets : appjs(in, "saveBudget", saveBudget(state, input, today))

SavePaydayStep(in) ==
  \E input \in in.paydays : appjs(in, "savePayday", savePayday(state, input, today))

\* Click on the delete button of a category listed in #categoriesList.
DeleteListedCategoryStep(in) ==
  \E name \in Range(state.categories), confirm \in ConfirmAnswers :
    appjs(in, "deleteCategory", deleteCategory(state, name, confirm, today))

\* Click on a button of the bottom navigation.
ShowTabStep(in) ==
  \E tabId \in {"saved", "categories"} :
    appjs(in, "showTab", showTab(state, tabId, today))

\* The page is loaded again.
InitializeApplicationStep(in) ==
  \E r \in in.tails :
    part000(in, "initializeApplication", initializeApplication(localStorage, today, r))

InitStep(in) == appjs(in, "init", init(localStorage, today))

\* Time passes: the clock is next read at a later date.
AdvanceClock ==
  /\ \E later \in ClockDates :
       /\ DateBefore(today, later)
       /\ today' = later
  /\ call' = [op |-> "AdvanceClock", says |-> "", text |-> "", thrown |-> FALSE]
  /\ UNCHANGED <<script, applicationState, state, localStorage>>

\* The instants at which the clock of SpecLive is read.
LiveClockDates ==
  {[NewDate(StartYear, StartMonth + k, d) EXCEPT !.hours = 12] :
     k \in 0..(MaxMonths - 1), d \in LiveClockDays}

\* Time passes by one date of the clock, with the tick run on every payday:
\* a date whose day of the month is the payday is left only once the tick has
\* run on it to its end.
AdvanceClockAfterTick ==
  /\ num(today.date) = configuredPayday(applicationState) =>
       /\ call.op = "archiveIfNeededAndPerformAutomatically"
       /\ call.says # "error"
  /\ \E later \in LiveClockDates :
       /\ DateBefore(today, later)
       /\ \A d \in LiveClockDates : ~(DateBefore(today, d) /\ DateBefore(d, later))
       /\ today' = later
  /\ call' = [op |-> "AdvanceClock", says |-> "", text |-> "", thrown |-> FALSE]
  /\ UNCHANGED <<script, applicationState, state, localStorage>>

\* The page of part_000 on its first run: nothing is stored yet.
Init ==
  /\ script = "part_000"
  /\ today = [NewDate(StartYear, StartMonth, 4) EXCEPT !.hours = 12]
  /\ applicationState = DefaultApplicationState
  /\ state = DefaultState
  /\ localStorage = NoItem
  /\ call = [op |-> "init", says |-> "", text |-> "", thrown |-> FALSE]

Next ==
  \/ ArchiveStep(Inputs)
  \/ HandleAddCategoryStep(Inputs)
  \/ HandleAddTransactionStep(Inputs)
  \/ HandleSaveBudgetStep(Inputs)
  \/ HandleDeleteTransactionByIdStep(Inputs)
  \/ EditCategoryClickStep(Inputs)
  \/ DeleteCategoryClickStep(Inputs)
  \/ ResetHistoryClickStep(Inputs)
  \/ SavePaydayClickStep(Inputs)
  \/ ModalPaydaySaveClickStep(Inputs)
  \/ AdvanceClock

Spec == Init /\ [][Next]_vars

\* The page of either script on its first run, after loadState of app.js has
\* put in the default categories.
InitLedger ==
  /\ script \in {"part_000", "app.js"}
  /\ today = [NewDate(StartYear, StartMonth, 4) EXCEPT !.hours = 12]
  /\ applicationState = DefaultApplicationState
  /\ state = IF script = "app.js" THEN loadState(DefaultState, NoItem) ELSE DefaultState
  /\ localStorage = NoItem
  /\ call = [op |-> "init", says |-> "", text |-> "", thrown |-> FALSE]

NextLedger ==
  \/ HandleAddCategoryStep(LedgerInputs)
  \/ HandleAddTransactionStep(LedgerInputs)
  \/ HandleDeleteTransactionByIdStep(LedgerInputs)
  \/ EditCategoryClickStep(LedgerInputs)
  \/ DeleteCategoryClickStep(LedgerInputs)
  \/ ResetHistoryClickStep(LedgerInputs)
  \/ AddTransactionStep(LedgerInputs)
  \/ DeleteTransactionStep(LedgerInputs)
  \/ AddCategoryStep(LedgerInputs)
  \/ EditCategoryStep(LedgerInputs)
  \/ DeleteCategoryStep(LedgerInputs)
  \/ ResetHistoryStep(LedgerInputs)

SpecLedger == InitLedger /\ [][NextLedger]_vars

\* The forms of both scripts, at one date: every handler that reads a text
\* field, with the category and transaction handlers around them.
NextForms ==
  \/ HandleAddCategoryStep(FormInputs)
  \/ HandleAddTransactionStep(FormInputs)
  \/ HandleSaveBudgetStep(FormInputs)
  \/ HandleDeleteTransactionByIdStep(FormInputs)
  \/ EditCategoryClickStep(FormInputs)
  \/ DeleteCategoryClickStep(FormInputs)
  \/ SavePaydayClickStep(FormInputs)
  \/ ModalPaydaySaveClickStep(FormInputs)
  \/ AddTransactionStep(FormInputs)
  \/ DeleteTransactionStep(FormInputs)
  \/ AddCategoryStep(FormInputs)
  \/ EditCategoryStep(FormInputs)
  \/ DeleteCategoryStep(FormInputs)
  \/ SaveBudgetStep(FormInputs)
  \/ SavePaydayStep(FormInputs)

SpecForms == InitLedger /\ [][NextForms]_vars

\* part_000 with transactions added over the months of the clock and the
\* tick run on any of its days or on none: paydays go by without a tick.
NextMissed ==
  \/ ArchiveStep(MissedInputs)
  \/ HandleAddCategoryStep(MissedInputs)
  \/ HandleAddTransactionStep(MissedInputs)
  \/ HandleSaveBudgetStep(MissedInputs)
  \/ SavePaydayClickStep(MissedInputs)
  \/ AdvanceClock

SpecMissed == Init /\ [][NextMissed]_vars

\* part_000 with time going on date by date and the tick run on every payday.
NextLive ==
  \/ ArchiveStep(LiveInputs)
  \/ HandleAddCategoryStep(LiveInputs)
  \/ HandleAddTransactionStep(LiveInputs)
  \/ HandleSaveBudgetStep(LiveInputs)
  \/ SavePaydayClickStep(LiveInputs)
  \/ AdvanceClockAfterTick

\* Time keeps going on, and a tick that can run to its end does so.
SpecLive ==
  /\ Init
  /\ [][NextLive]_vars
  /\ WF_vars(ArchiveStep(LiveInputs) /\ call'.says # "error")
  /\ SF_vars(AdvanceClockAfterTick)

\* Both scripts with the page loaded again at any time: the handlers that
\* write each field of the state, and the start of the page, which reads the
\* state back from the store.
NextStore ==
  \/ HandleAddCategoryStep(StoreInputs)
  \/ HandleAddTransactionStep(StoreInputs)
  \/ HandleSaveBudgetStep(StoreInputs)
  \/ SavePaydayClickStep(StoreInputs)
  \/ DeleteCategoryClickStep(StoreInputs)
  \/ InitializeApplicationStep(StoreInputs)
  \/ AddTransactionStep(StoreInputs)
  \/ SaveBudgetStep(StoreInputs)
  \/ SavePaydayStep(StoreInputs)
  \/ DeleteListedCategoryStep(StoreInputs)
  \/ InitStep(StoreInputs)

\* The page of either script once it has started, on a store that is empty or
\* holds a text that is no JSON.
InitStore ==
  /\ script \in {"part_000", "app.js"}
  /\ today = [NewDate(StartYear, StartMonth, 4) EXCEPT !.hours = 12]
  /\ localStorage \in {NoItem, CorruptItem}
  /\ applicationState = loadApplicationState(DefaultApplicationState, localStorage)
  /\ state = IF script = "app.js" THEN loadState(DefaultState, localStorage)
             ELSE DefaultState
  /\ call = [op |-> "init", says |-> "", text |-> "", thrown |-> FALSE]

SpecStore == InitStore /\ [][NextStore]_vars

\* Both scripts over the dates of the clock, with the handlers the figures
\* shown depend on and the tabs of app.js, which show them.
NextTabs ==
  \/ HandleAddCategoryStep(StoreInputs)
  \/ HandleAddTransactionStep(StoreInputs)
  \/ HandleSaveBudgetStep(StoreInputs)
  \/ AddTransactionStep(StoreInputs)
  \/ SaveBudgetStep(StoreInputs)
  \/ SavePaydayStep(StoreInputs)
  \/ ShowTabStep(StoreInputs)
  \/ AdvanceClock

SpecTabs == InitLedger /\ [][NextTabs]_vars

(***************************************************************************)
(* The period calculator on its own: computePeriodIdForDate is applied once *)
(* to a date and a payday drawn at the start.                               *)
(***************************************************************************)
\* Years the dates given to computePeriodIdForDate are drawn from.
MaxYears == 2

\* The days of the month a payday can be.
MaxPayday == 28

\* Every day of the years the calculator is run over.
PeriodDates ==
  UNION {{NewDate(StartYear + y, m, d) : d \in 1..daysInMonth(StartYear + y, m)} :
           y \in 0..(MaxYears - 1), m \in 0..11}

InitPeriod ==
  /\ script = "part_000"
  /\ today \in PeriodDates
  /\ \E payday \in 1..MaxPayday :
       applicationState = [DefaultApplicationState EXCEPT !.payday = num(payday)]
  /\ state = DefaultState
  /\ localStorage = NoItem
  /\ call = [op |-> "init", says |-> "", text |-> "", thrown |-> FALSE]

\* computePeriodIdForDate(today, payday) is called and its result is kept.
ComputePeriodIdStep ==
  /\ call.op = "init"
  /\ call' = [op |-> "computePeriodIdForDate", says |-> "",
              text |-> computePeriodIdForDate(today, applicationState.payday),
              thrown |-> FALSE]
  /\ UNCHANGED <<script, today, applicationState, state, localStorage>>

NextPeriod == ComputePeriodIdStep

SpecPeriod == InitPeriod /\ [][NextPeriod]_vars

(***************************************************************************)
(* Properties of the archival engine (Spec) and of the period calculator    *)
(* (SpecPeriod).                                                            *)
(***************************************************************************)
\* The key "YYYY-MM" of a year and a 0-based month, written out digit by digit.
YearMonthKey(year, month) ==
  ToString(year) \o "-"
    \o <<"01", "02", "03", "04", "05", "06", "07", "08", "09", "10", "11", "12">>[month + 1]

\* The keys of the months the clock runs through, the month before them first:
\* the position of a key in this list orders the period ids.
PeriodKeys ==
  [k \in 1..(MaxMonths + 1) |->
     LET first == NewDate(StartYear, StartMonth + k - 2, 1)
     IN  YearMonthKey(first.year, first.month)]

periodOrdinal(periodId) == CHOOSE k \in DOMAIN PeriodKeys : PeriodKeys[k] = periodId

\* C1 (archival atomicity): in every reachable state, a tick at the current
\* date that changes the state at all appends exactly one archive record and
\* leaves the earlier records as they were, sets lastArchivePeriodId to the
\* period id of the current date under the configured payday, sets the budget to
\* 0 and the transactions to the empty list, and the appended record holds the
\* budget, the transactions and the categories the state had before the tick.
C1_ArchivalAtomicity ==
  script = "part_000" =>
    \A r \in RandomTails :
      LET s == applicationState
          t == archiveIfNeededAndPerformAutomatically(s, today, r).state
          n == Len(s.archivedPeriods)
      IN  t # s =>
            /\ Len(t.archivedPeriods) = n + 1
            /\ SubSeq(t.archivedPeriods, 1, n) = s.archivedPeriods
            /\ t.lastArchivePeriodId = computePeriodIdForDate(today, configuredPayday(s))
            /\ t.budgetAmount = 0
            /\ t.transactions = <<>>
            /\ t.archivedPeriods[n + 1].budgetAtArchive = s.budgetAmount
            /\ t.archivedPeriods[n + 1].transactionsSnapshot = s.transactions
            /\ t.archivedPeriods[n + 1].categoriesSnapshot = s.categories

\* A tick has just sealed a period that had a budget and a transaction.
C1_Witness ==
  /\ call.op = "archiveIfNeededAndPerformAutomatically"
  /\ call.says = "toast"
  /\ applicationState.archivedPeriods # <<>>
  /\ LET last == applicationState.archivedPeriods[Len(applicationState.archivedPeriods)]
     IN  /\ last.budgetAtArchive = num(1000)
         /\ last.transactionsSnapshot # <<>>
         /\ last.categoriesSnapshot # <<>>
  /\ applicationState.transactions = <<>>
  /\ applicationState.budgetAmount = 0

\* C2 (tick idempotence): in every reachable state, a second tick at the same
\* date right after a first one changes nothing and writes nothing: the state
\* after the second tick is the state after the first.
C2_TickIdempotent ==
  script = "part_000" =>
    \A r1 \in RandomTails, r2 \in RandomTails :
      LET first == archiveIfNeededAndPerformAutomatically(applicationState, today, r1)
          second == archiveIfNeededAndPerformAutomatically(first.state, today, r2)
      IN  /\ second.state = first.state
          /\ ~second.saved

\* A tick has just sealed the period of today, which is the payday: the next
\* tick at this date meets the period it has to decline.
C2_Witness ==
  /\ call.op = "archiveIfNeededAndPerformAutomatically"
  /\ call.says = "toast"
  /\ num(today.date) = configuredPayday(applicationState)
  /\ applicationState.lastArchivePeriodId = YearMonthKey(today.year, today.month)

\* C3 (at most one archive per period): whatever step is taken, if it adds an
\* archive record then the period id it seals, which it leaves in
\* lastArchivePeriodId, comes strictly after the period id sealed last, and if
\* it adds none then lastArchivePeriodId stays: the period ids of successive
\* archive records strictly increase.
C3_OneArchivePerPeriod ==
  [][LET before == applicationState
         after == applicationState'
     IN  /\ Len(after.archivedPeriods) >= Len(before.archivedPeriods)
         /\ Len(after.archivedPeriods) = Len(before.archivedPeriods) =>
              after.lastArchivePeriodId = before.lastArchivePeriodId
         /\ Len(after.archivedPeriods) > Len(before.archivedPeriods) =>
              /\ after.lastArchivePeriodId # null
              /\ before.lastArchivePeriodId # null =>
                   periodOrdinal(before.lastArchivePeriodId)
                     < periodOrdinal(after.lastArchivePeriodId)]_vars

\* Two periods are sealed, the payday having been changed between the two.
C3_Witness ==
  /\ Len(applicationState.archivedPeriods) = 2
  /\ NewDateOf(applicationState.archivedPeriods[1].dateArchived).date
       # NewDateOf(applicationState.archivedPeriods[2].dateArchived).date
  /\ applicationState.lastArchivePeriodId = "2026-01"

\* C4 (period calculator): for a date of year y, month m and day 1..28 and a
\* payday 1..28, computePeriodIdForDate returns the key "YYYY-MM" of (y, m) when
\* the day is at or after the payday, else the key of the month before, which
\* is December of y - 1 when m is January; with payday 5 it maps 3 August 2025
\* to "2025-07" and 5 August 2025 to "2025-08".
C4_PeriodIdFor ==
  /\ call.op = "computePeriodIdForDate" =>
       call.text =
         IF num(today.date) >= applicationState.payday
         THEN YearMonthKey(today.year, today.month)
         ELSE IF today.month = 0 THEN YearMonthKey(today.year - 1, 11)
         ELSE YearMonthKey(today.year, today.month - 1)
  /\ computePeriodIdForDate(NewDate(2025, 7, 3), num(5)) = "2025-07"
  /\ computePeriodIdForDate(NewDate(2025, 7, 5), num(5)) = "2025-08"

\* The period id of 3 January 2026 under payday 5 has been computed: the period
\* began in December of the year before.
C4_Witness ==
  /\ call.op = "computePeriodIdForDate"
  /\ today = NewDate(2026, 0, 3)
  /\ applicationState.payday = num(5)
  /\ call.text = "2025-12"

(***************************************************************************)
(* Properties of the ledger and the category registry (SpecLedger).         *)
(***************************************************************************)
\* The live transactions and the registry of the script that runs.
liveTransactions == IF script = "part_000" THEN applicationState.transactions
                    ELSE state.transactions
registry == IF script = "part_000" THEN applicationState.categories ELSE state.categories

\* after is before with the category oldName replaced by newName and nothing
\* else touched, and when the two names differ nothing in after names oldName.
Cascaded(before, after, oldName, newName) ==
  /\ Len(after) = Len(before)
  /\ \A i \in 1..Len(before) :
       /\ before[i].category = oldName => after[i].category = newName
       /\ before[i].category # oldName => after[i].category = before[i].category
       /\ after[i] = [before[i] EXCEPT !.category = after[i].category]
  /\ newName # oldName => \A i \in 1..Len(after) : after[i].category # oldName

\* C5 (rename cascade): in every reachable state, every rename that goes
\* through (it writes the state) gives the new, trimmed name to each live
\* transaction that had the old one, leaves the category of every other
\* transaction, and, when the two names differ, leaves no live transaction with
\* the old name.
C5_RenameCascade ==
  \A oldName \in Names \cup Range(registry), newName \in LedgerInputs.prompts \cup Names :
    LET res == IF script = "part_000"
               THEN editCategoryClick(applicationState, oldName, newName)
               ELSE editCategory(state, oldName, newName, today)
    IN  res.saved =>
          Cascaded(liveTransactions, res.state.transactions, oldName, trim(newName))

\* A rename has just gone through with transactions of two categories live, of
\* which one carries the new name "A".
C5_Witness ==
  /\ call.op \in {"editCategoryClick", "editCategory"}
  /\ call.says # "alert"
  /\ Len(liveTransactions) = 2
  /\ liveTransactions[1].category = "A"
  /\ liveTransactions[2].category = "B"
  /\ "A" \in Range(registry)

\* C6 (referential integrity): in every reachable state the category of every
\* live transaction is a name of the registry.
C6_ReferentialIntegrity ==
  \A i \in 1..Len(liveTransactions) : liveTransactions[i].category \in Range(registry)

\* A category has just been deleted in part_000 and its transaction is left with
\* "Sonstiges", which the registry does not hold.
C6_Witness ==
  /\ script = "part_000"
  /\ call.op = "deleteCategoryClick"
  /\ call.says = "toast"
  /\ \E i \in 1..Len(liveTransactions) : liveTransactions[i].category = "Sonstiges"
  /\ "Sonstiges" \notin Range(registry)

\* C7 (unique category names): in every reachable state the registry holds no
\* name twice, and a rename to another name the registry already holds is
\* refused with an alert and changes nothing.
C7_UniqueCategoryNames ==
  /\ \A i \in 1..Len(registry), j \in 1..Len(registry) : i # j => registry[i] # registry[j]
  /\ \A oldName \in Range(registry), newName \in LedgerInputs.prompts :
       LET res == IF script = "part_000"
                  THEN editCategoryClick(applicationState, oldName, newName)
                  ELSE editCategory(state, oldName, newName, today)
       IN  (trim(newName) \in Range(registry) /\ trim(newName) # oldName) =>
             /\ res.says = "alert"
             /\ ~res.saved
             /\ res.state = IF script = "part_000" THEN applicationState ELSE state

\* A rename has just gone through and the registry holds a name twice.
C7_Witness ==
  /\ call.op \in {"editCategoryClick", "editCategory"}
  /\ call.says # "alert"
  /\ \E i \in 1..Len(registry), j \in 1..Len(registry) : i # j /\ registry[i] = registry[j]

\* C8 (unknown category): in every reachable state, adding a transaction with
\* a description and a positive amount under a category the registry does not
\* hold is refused (nothing is written, an alert or a warning is shown) and
\* changes nothing.  part_000 takes the category from its select, app.js as
\* the argument of addTransaction.
C8_UnknownCategoryRefused ==
  \A r \in RandomTails :
    /\ script = "part_000" =>
         \A category \in transactionCategoryOptions(applicationState.categories) :
           LET res == handleAddTransaction(applicationState, " Coffee ", "5", category,
                                           today, r)
           IN  category \notin Range(registry) =>
                 /\ res.says \in {"alert", "warn"}
                 /\ ~res.saved
                 /\ res.state = applicationState
    /\ script = "app.js" =>
         \A category \in Names \cup {""} :
           LET res == addTransaction(state, " Coffee ", "5", category, today, r)
           IN  category \notin Range(registry) =>
                 /\ res.says \in {"alert", "warn"}
                 /\ ~res.saved
                 /\ res.state = state

\* addTransaction of app.js has just put in a transaction whose category the
\* registry does not hold.
C8_Witness ==
  /\ script = "app.js"
  /\ call.op = "addTransaction"
  /\ call.says # "warn"
  /\ liveTransactions # <<>>
  /\ liveTransactions[Len(liveTransactions)].category \notin Range(registry)

\* C9 (remove of an absent id): a removal that is carried out (the dialog of
\* part_000 is not cancelled) and finds no live transaction with its id, so
\* that the ledger stays as it was, reports the failure with an alert or a
\* warning and writes nothing.
C9_RemoveAbsentFails ==
  [][(/\ \/ call'.op = "handleDeleteTransactionById" /\ call'.says = "toast"
         \/ call'.op = "deleteTransaction"
      /\ applicationState'.transactions = applicationState.transactions
      /\ state'.transactions = state.transactions)
       => /\ call'.says \in {"alert", "warn"}
          /\ localStorage' = localStorage]_vars

\* C10 (create): in every reachable state, adding a category whose trimmed
\* name is empty or already in the registry is refused with an alert and
\* changes nothing; adding any other puts the trimmed name at the end of the
\* registry, leaves the names before it and their order, and changes nothing
\* else.
C10_CreateCategory ==
  \A input \in LedgerInputs.names :
    LET s == IF script = "part_000" THEN applicationState ELSE state
        res == IF script = "part_000" THEN handleAddCategory(applicationState, input)
               ELSE addCategory(state, input)
    IN  IF trim(input) = "" \/ trim(input) \in Range(registry)
        THEN /\ res.says = "alert"
             /\ ~res.saved
             /\ res.state = s
        ELSE /\ res.saved
             /\ res.state = [s EXCEPT !.categories = registry \o <<trim(input)>>]

\* handleAddCategory has just refused a name the registry holds already.
C10_Witness ==
  /\ call.op = "handleAddCategory"
  /\ call.says = "alert"
  /\ call.text = "Kategorie existiert bereits."
  /\ registry # <<>>

\* C11 (delete category): in every reachable state, a confirmed delete of a
\* name the registry holds leaves the registry without that name and with its
\* other names as they were, gives the literal "Sonstiges" to every live
\* transaction that had the name and leaves every other transaction, and does
\* not put "Sonstiges" into the registry.
C11_DeleteCategory ==
  \A name \in Range(registry) :
    LET s == IF script = "part_000" THEN applicationState ELSE state
        res == IF script = "part_000" THEN deleteCategoryClick(applicationState, name, "ok")
               ELSE deleteCategory(state, name, "ok", today)
        before == liveTransactions
        after == res.state.transactions
        kept == {i \in 1..Len(registry) : registry[i] # name}
    IN  /\ res.saved
        /\ name \notin Range(res.state.categories)
        /\ Range(res.state.categories) = Range(registry) \ {name}
        /\ Len(res.state.categories) = Cardinality(kept)
        /\ \A i \in kept, j \in kept :
             i < j => \E k \in 1..Len(res.state.categories), l \in 1..Len(res.state.categories) :
                        /\ k < l
                        /\ res.state.categories[k] = registry[i]
                        /\ res.state.categories[l] = registry[j]
        /\ Len(after) = Len(before)
        /\ \A i \in 1..Len(before) :
             /\ before[i].category = name => after[i].category = "Sonstiges"
             /\ before[i].category # name => after[i] = before[i]
             /\ after[i] = [before[i] EXCEPT !.category = after[i].category]

\* A category has just been deleted while two transactions were live: the one
\* that had it now has "Sonstiges", the other kept its own, and the registry
\* holds only the other name.
C11_Witness ==
  /\ script = "part_000"
  /\ call.op = "deleteCategoryClick"
  /\ call.says = "toast"
  /\ Len(liveTransactions) = 2
  /\ liveTransactions[1].category = "Sonstiges"
  /\ liveTransactions[2].category = "B"
  /\ registry = <<"B">>

(***************************************************************************)
(* Further properties of the archival engine (Spec).                        *)
(***************************************************************************)
\* C12 (archives append-only): whatever step is taken, the archive records
\* held before it are the first records held after it, each exactly as it
\* was: records are only ever added at the end.
C12_ArchivesAppendOnly ==
  [][LET before == applicationState.archivedPeriods
         after == applicationState'.archivedPeriods
     IN  /\ Len(before) <= Len(after)
         /\ SubSeq(after, 1, Len(before)) = before]_vars

\* A category has just been renamed after a period was sealed with a
\* transaction of that category: the sealed snapshots still carry the old
\* name while the registry carries the new one.
C12_Witness ==
  /\ call.op = "editCategoryClick"
  /\ call.says = "toast"
  /\ registry = <<"A">>
  /\ Len(applicationState.archivedPeriods) = 1
  /\ applicationState.archivedPeriods[1].categoriesSnapshot = <<"B">>
  /\ Len(applicationState.archivedPeriods[1].transactionsSnapshot) = 1
  /\ applicationState.archivedPeriods[1].transactionsSnapshot[1].category = "B"

\* C18 (seal failure is atomic): a tick in which the construction of the
\* archive record throws leaves the state and the stored text as they were
\* (no record appended, budget and transactions not reset,
\* lastArchivePeriodId unchanged); and a tick that changes the budget, the
\* transactions or lastArchivePeriodId has appended one archive record, which
\* holds the budget and the transactions from before the tick.
C18_SealFailureAtomic ==
  [][call'.op = "archiveIfNeededAndPerformAutomatically" =>
       LET before == applicationState
           after == applicationState'
           n == Len(before.archivedPeriods)
       IN  /\ call'.says = "error" => after = before /\ localStorage' = localStorage
           /\ (\/ after.budgetAmount # before.budgetAmount
               \/ after.transactions # before.transactions
               \/ after.lastArchivePeriodId # before.lastArchivePeriodId) =>
                /\ Len(after.archivedPeriods) = n + 1
                /\ after.archivedPeriods[n + 1].budgetAtArchive = before.budgetAmount
                /\ after.archivedPeriods[n + 1].transactionsSnapshot
                     = before.transactions]_vars

\* On the payday, with a budget and a transaction and the period not yet
\* sealed, the construction of the archive record has just thrown: budget
\* and transaction are still there and no record was added.
C18_Witness ==
  /\ call.op = "archiveIfNeededAndPerformAutomatically"
  /\ call.says = "error"
  /\ num(today.date) = configuredPayday(applicationState)
  /\ applicationState.lastArchivePeriodId
       # computePeriodIdForDate(today, configuredPayday(applicationState))
  /\ applicationState.budgetAmount = num(1000)
  /\ applicationState.transactions # <<>>
  /\ applicationState.archivedPeriods = <<>>

C22_TickGuard ==
  [][(call'.op = "archiveIfNeededAndPerformAutomatically"
        /\ applicationState' # applicationState) =>
       /\ num(today.date) = applicationState.payday
       /\ computePeriodIdForDate(today, applicationState.payday)
            # applicationState.lastArchivePeriodId]_vars

\* On the payday, the period of today being sealed already and a transaction
\* added since, a tick has just run and declined: the transaction is still
\* live.
C22_Witness ==
  /\ call.op = "archiveIfNeededAndPerformAutomatically"
  /\ call.says = ""
  /\ num(today.date) = applicationState.payday
  /\ applicationState.lastArchivePeriodId
       = computePeriodIdForDate(today, applicationState.payday)
  /\ applicationState.transactions # <<>>
  /\ Len(applicationState.archivedPeriods) = 1

\* C27 (seal failures are surfaced): whenever a tick has just failed while
\* it built its archive record, the exception has reached the caller of the
\* tick: it was not caught and logged inside it.
C27_SealFailureSurfaced ==
  (call.op = "archiveIfNeededAndPerformAutomatically"
     /\ call.text = "Fehler beim automatischen Archivieren:") =>
    call.thrown

\* The construction of the archive record has just thrown in a tick: the
\* tick has written the error to the console and returned to its caller.
C27_Witness ==
  /\ call.op = "archiveIfNeededAndPerformAutomatically"
  /\ call.says = "error"
  /\ call.text = "Fehler beim automatischen Archivieren:"
  /\ ~call.thrown

\* C29 (a seal resets only budget and transactions): a tick, whether it
\* seals or not, leaves the category registry and the payday as they were, so
\* that after it a transaction can be added in each category there was
\* before it.
C29_SealKeepsRegistry ==
  [][call'.op = "archiveIfNeededAndPerformAutomatically" =>
       /\ applicationState'.categories = applicationState.categories
       /\ applicationState'.payday = applicationState.payday
       /\ \A c \in Range(applicationState.categories) :
            \A r \in RandomTails :
              handleAddTransaction(applicationState', " Coffee ", "5", c, today, r).says
                = "toast"]_vars

\* A tick has just sealed a period in which the category B was created and a
\* transaction made in it: B is still in the registry and the payday is
\* still 5.
C29_Witness ==
  /\ call.op = "archiveIfNeededAndPerformAutomatically"
  /\ call.says = "toast"
  /\ applicationState.categories = <<"B">>
  /\ applicationState.payday = num(5)
  /\ Len(applicationState.archivedPeriods) = 1
  /\ applicationState.archivedPeriods[1].categoriesSnapshot = <<"B">>
  /\ Len(applicationState.archivedPeriods[1].transactionsSnapshot) = 1

(***************************************************************************)
(* Properties of the summary, the ledger entries, the budget and the        *)
(* payday.                                                                   *)
(***************************************************************************)
\* The sum of the amounts of a list of transactions.
SumOfAmounts(transactions) ==
  LET RECURSIVE sumFrom(_)
      sumFrom(i) == IF i > Len(transactions) THEN 0
                    ELSE transactions[i].amount + sumFrom(i + 1)
  IN  sumFrom(1)

\* The summary the script that runs shows for its state.
summaryShown ==
  IF script = "part_000" THEN updateSummaryInUi(applicationState) ELSE updateSummary(state)

\* C13 (remaining): in every reachable state the remaining amount shown is
\* the budget less the sum of the live amounts, but never below 0; and with a
\* budget of 1000 and amounts summing to 850 it is 150 with the low-remaining
\* mark (threshold 200) set.
C13_Remaining ==
  /\ LET budget == IF script = "part_000" THEN applicationState.budgetAmount
                   ELSE state.budget
         left == budget - SumOfAmounts(liveTransactions)
     IN  summaryShown.remaining = IF left < 0 THEN 0 ELSE left
  /\ LET example == updateSummaryInUi(
                      [DefaultApplicationState EXCEPT
                         !.budgetAmount = num(1000),
                         !.transactions = <<[amount |-> num(500)], [amount |-> num(350)]>>])
     IN  example.remaining = num(150) /\ example.redAlert

\* A transaction of 5 francs has just been added with no budget set: the
\* remaining amount shown is below 0.
C13_Witness ==
  /\ call.op \in {"handleAddTransaction", "addTransaction"}
  /\ liveTransactions # <<>>
  /\ summaryShown.remaining < 0


\* The description a ledger entry carries: the field is named description in
\* part_000 and desc in app.js.
descriptionOf(tx) == IF script = "part_000" THEN tx.description ELSE tx.desc

\* C14 (ledger well-formedness): in every reachable state every live
\* transaction has a finite amount above 0 and a description that is not
\* empty once trimmed; an add that would break this is rejected, so the
\* ledger never holds such an entry.
C14_LedgerWellFormed ==
  \A i \in DOMAIN liveTransactions :
    /\ ~isNaN(liveTransactions[i].amount)
    /\ liveTransactions[i].amount > 0
    /\ trim(descriptionOf(liveTransactions[i])) # ""

\* addTransaction of app.js has just stored an entry whose amount is not
\* above 0 or whose description is blank.
C14_Witness ==
  /\ script = "app.js"
  /\ call.op = "addTransaction"
  /\ \E i \in DOMAIN liveTransactions :
       \/ liveTransactions[i].amount <= 0
       \/ trim(liveTransactions[i].desc) = ""


\* The budget of the running script.
budgetOf(s, st) == IF script = "part_000" THEN s.budgetAmount ELSE st.budget

\* The texts that are no budget: not a number, or a number below 0.
NoBudget(input) == isNaN(parseFloat(input)) \/ parseFloat(input) < 0

\* C15 (budget): the budget is never below 0; the set-budget handler leaves
\* the state as it is when the text typed is negative or not a number; and
\* the budget changes only in a step of the set-budget handler or of the
\* sealing tick, never in a category or transaction operation.
C15_Budget ==
  /\ [](/\ budgetOf(applicationState, state) >= 0
        /\ \A input \in FormInputs.budgets :
             NoBudget(input) =>
               IF script = "part_000"
               THEN handleSaveBudget(applicationState, input).state = applicationState
               ELSE saveBudget(state, input, today).state.budget = state.budget)
  /\ [][budgetOf(applicationState', state') # budgetOf(applicationState, state)
          => call'.op \in {"handleSaveBudget", "saveBudget",
                           "archiveIfNeededAndPerformAutomatically"}]_vars

\* The #saveBudget handler of app.js has just stored a budget below 0.
C15_Witness ==
  /\ script = "app.js"
  /\ call.op = "saveBudget"
  /\ state.budget < 0


\* The payday of the running script.
paydayOf(s, st) == IF script = "part_000" THEN s.payday ELSE st.payday

\* Whether a number is whole.
isInteger(v) == v % 10 = 0

\* A number that is a day of the month from 1 to 28.
IsPayday(v) == ~isNaN(v) /\ isInteger(v) /\ v >= num(1) /\ v <= num(MaxPayday)

\* C16 (payday): in every reachable state the payday is a whole number from
\* 1 to 28, so the period id is only ever computed with such a payday; a
\* set-payday whose text is no such number is rejected and leaves the state
\* as it is.
C16_Payday ==
  /\ IsPayday(paydayOf(applicationState, state))
  /\ \A input \in FormInputs.paydays :
       ~IsPayday(Number(input)) =>
         IF script = "part_000"
         THEN /\ savePaydayClick(applicationState, input).state = applicationState
              /\ modalPaydaySaveClick(applicationState, input).state = applicationState
         ELSE savePayday(state, input, today).state = state

\* A payday handler of part_000 has just stored a payday that is no whole
\* number.
C16_Witness ==
  /\ script = "part_000"
  /\ call.op \in {"savePaydayClick", "modalPaydaySaveClick"}
  /\ ~isInteger(applicationState.payday)


(***************************************************************************)
(* Further properties of the period calculator (SpecPeriod).                *)
(***************************************************************************)
\* The keys of the months of PeriodDates in the "YYYY-MM" order, with the
\* month before them and the month after them.
AllPeriodKeys ==
  [k \in 1..(12 * MaxYears + 2) |->
     LET first == NewDate(StartYear, k - 2, 1)
     IN  YearMonthKey(first.year, first.month)]

\* The place of a period id in that order.
keyOrdinal(periodId) == CHOOSE k \in DOMAIN AllPeriodKeys : AllPeriodKeys[k] = periodId

\* The day after a date.
nextDay(date) ==
  IF date.date < daysInMonth(date.year, date.month)
  THEN NewDate(date.year, date.month, date.date + 1)
  ELSE NewDate(date.year, date.month + 1, 1)

\* C17 (period ids are monotone): once the period id of the current date has
\* been computed under a payday from 1 to 28, it is exactly one of the month
\* keys; the id of no later date comes before it in the "YYYY-MM" order; and
\* the id of the day after differs from it only if the day after is the
\* payday, and then it is the key of the next month.
C17_PeriodIdsMonotone ==
  call.op = "computePeriodIdForDate" =>
    LET payday == applicationState.payday
        after == computePeriodIdForDate(nextDay(today), payday)
    IN  /\ \E k \in DOMAIN AllPeriodKeys : AllPeriodKeys[k] = call.text
        /\ \A later \in PeriodDates :
             ~DateBefore(later, today) =>
               keyOrdinal(call.text) <= keyOrdinal(computePeriodIdForDate(later, payday))
        /\ after # call.text =>
             /\ num(nextDay(today).date) = payday
             /\ keyOrdinal(after) = keyOrdinal(call.text) + 1

\* The period id of 4 March 2026 has been computed under payday 5 and is
\* the key of February: the id of the day after, the payday, is the key of
\* the next month, March.
C17_Witness ==
  /\ call.op = "computePeriodIdForDate"
  /\ today = NewDate(2026, 2, 4)
  /\ applicationState.payday = num(5)
  /\ call.text = "2026-02"
  /\ computePeriodIdForDate(nextDay(today), applicationState.payday) = "2026-03"

(***************************************************************************)
(* Properties of the store (SpecStore).                                     *)
(***************************************************************************)
\* C20 (persistence round trip): in every reachable state, writing the state
\* and loading what was written on a fresh page gives a state equal to it in
\* every field of the engine state: budget, transactions, categories, payday
\* and, where the script has them, the archives and lastArchivePeriodId.
C20_RoundTrip ==
  IF script = "part_000"
  THEN loadApplicationState(DefaultApplicationState,
                            saveApplicationState(applicationState)) = applicationState
  ELSE LET loaded == loadState(DefaultState, saveState(state))
       IN  /\ loaded.budget = state.budget
           /\ loaded.transactions = state.transactions
           /\ loaded.categories = state.categories
           /\ loaded.payday = state.payday

\* After the last category of app.js was deleted, the page has just been
\* loaded again: the stored text has no categories, and the state has the
\* eight default ones.
C20_Witness ==
  /\ script = "app.js"
  /\ call.op = "init"
  /\ localStorage # NoItem
  /\ parses(localStorage)
  /\ JSONparse(localStorage).categories = <<>>
  /\ state.categories = DefaultCategories

\* The fields of the engine state that the running script has, as a record.
engineState ==
  IF script = "part_000"
  THEN [budget |-> applicationState.budgetAmount,
        transactions |-> applicationState.transactions,
        categories |-> applicationState.categories,
        archives |-> applicationState.archivedPeriods,
        lastArchivedPeriodId |-> applicationState.lastArchivePeriodId]
  ELSE [budget |-> state.budget,
        transactions |-> state.transactions,
        categories |-> state.categories,
        archives |-> <<>>,
        lastArchivedPeriodId |-> null]

\* C21 (default state on first run or corrupt blob): when the page has just
\* started on a store that is empty or holds a text that is no JSON, the
\* state is the default empty one: budget 0, no transactions, no categories,
\* no archives, lastArchivedPeriodId null.
C21_DefaultState ==
  (call.op \in {"init", "initializeApplication"}
     /\ localStorage \in {NoItem, CorruptItem}) =>
    engineState = [budget |-> 0, transactions |-> <<>>, categories |-> <<>>,
                   archives |-> <<>>, lastArchivedPeriodId |-> null]

\* The page of app.js has started on a store holding a text that is no JSON:
\* its registry holds the eight default categories.
C21_Witness ==
  /\ script = "app.js"
  /\ call.op = "init"
  /\ localStorage = CorruptItem
  /\ state.categories = DefaultCategories

(***************************************************************************)
(* Properties of the tick over paydays that went by without it (SpecMissed). *)
(***************************************************************************)
\* C23 (missed payday): a tick on a day that is not the payday seals nothing,
\* however long ago the last seal was; and the tick that does seal, on a
\* payday, appends exactly one archive record, whose transactionsSnapshot
\* holds every live transaction, those made before a payday that went by
\* without a tick as well as those made since, and marks the period of its
\* own date: no record is made for the boundary that was skipped.
C23_MissedPayday ==
  [][call'.op = "archiveIfNeededAndPerformAutomatically" =>
       LET before == applicationState
           after == applicationState'
           n == Len(before.archivedPeriods)
       IN  /\ num(today.date) # before.payday => after = before
           /\ after # before =>
                /\ Len(after.archivedPeriods) = n + 1
                /\ SubSeq(after.archivedPeriods, 1, n) = before.archivedPeriods
                /\ after.archivedPeriods[n + 1].transactionsSnapshot = before.transactions
                /\ NewDateOf(after.archivedPeriods[n + 1].dateArchived) = today
                /\ after.lastArchivePeriodId
                     = computePeriodIdForDate(today, before.payday)]_vars

\* Payday 5: a transaction was made on 4 December, no tick ran on 5 December,
\* a second transaction was made after that, and the tick of 5 January has
\* just sealed: its record is the only one and holds both transactions.
C23_Witness ==
  /\ call.op = "archiveIfNeededAndPerformAutomatically"
  /\ call.says = "toast"
  /\ applicationState.payday = num(5)
  /\ today = [NewDate(2026, 0, 5) EXCEPT !.hours = 12]
  /\ Len(applicationState.archivedPeriods) = 1
  /\ applicationState.lastArchivePeriodId = "2026-01"
  /\ LET snapshot == applicationState.archivedPeriods[1].transactionsSnapshot
     IN  /\ Len(snapshot) = 2
         /\ NewDateOf(snapshot[1].date) = [NewDate(2025, 11, 4) EXCEPT !.hours = 12]
         /\ DateBefore(NewDate(2025, 11, 5), NewDateOf(snapshot[2].date))

(***************************************************************************)
(* Properties of the saved records of app.js (SpecForms).                   *)
(***************************************************************************)
\* The records computeSavedRecords computes from the state of app.js now.
savedPerPeriod == computeSavedRecords(state, today).savedRecords

\* The live transactions of app.js made from start on and before next.
madeWithin(start, next) ==
  SelectSeq(state.transactions,
            LAMBDA t : /\ ~DateBefore(NewDateOf(t.date), start)
                       /\ DateBefore(NewDateOf(t.date), next))

\* C24 (the saved records partition the live ledger): when there are live
\* transactions, the records computed start at the period of the earliest
\* transaction, each next one starts where the one before stops, a month
\* later, and the last one holds the current date; and the saved value of each
\* is the budget minus the amounts of the transactions made from its start up
\* to, but not at, the start of the next, so that every transaction, one made
\* at noon of the last day before the next payday included, is counted once.
C24_SavedPerPeriod ==
  (script = "app.js" /\ state.transactions # <<>>) =>
    LET records == savedPerPeriod
        dates == {NewDateOf(state.transactions[i].date) :
                    i \in DOMAIN state.transactions}
    IN  /\ records # <<>>
        /\ \E d \in dates :
             /\ \A e \in dates : ~DateBefore(e, d)
             /\ records[1].start = periodStartForDate(d, state.payday)
        /\ \A i \in 1..(Len(records) - 1) :
             records[i + 1].start = nextMonth(records[i].start)
        /\ ~DateBefore(today, records[Len(records)].start)
        /\ DateBefore(today, nextMonth(records[Len(records)].start))
        /\ \A i \in DOMAIN records :
             records[i].saved
               = state.budget
                   - SumOfAmounts(madeWithin(records[i].start,
                                             nextMonth(records[i].start)))

\* Payday 5: a transaction of 5 has just been added at noon of the 4th, the
\* last day of the period, and the saved value of that period is the whole
\* budget: the transaction is counted in no record.
C24_Witness ==
  /\ script = "app.js"
  /\ call.op = "addTransaction"
  /\ state.payday = num(5)
  /\ today.date = 4
  /\ Len(state.transactions) = 1
  /\ state.transactions[1].amount = num(5)
  /\ Len(state.savedRecords) = 1
  /\ state.savedRecords[1].saved = state.budget

(***************************************************************************)
(* Properties of the queries (SpecTabs).                                    *)
(***************************************************************************)
\* C25 (aggregation queries are read-only): in every reachable state,
\* computing the saved-per-period records, as the tab of the saved records
\* does, leaves every field of the state as it is and does not write the
\* state to the store; the totals of the summary are computed from the state
\* without a handler result, which has them change nothing.
C25_QueriesReadOnly ==
  script = "app.js" =>
    LET shown == showTab(state, "saved", today)
    IN  /\ shown.state = state
        /\ ~shown.saved

\* A transaction was added in December, the clock went on to January and the
\* tab of the saved records has just been shown: the state now holds the
\* records of two periods, and the store holds them too.
C25_Witness ==
  /\ script = "app.js"
  /\ call.op = "showTab"
  /\ Len(state.transactions) = 1
  /\ NewDateOf(state.transactions[1].date).month = 11
  /\ today.month = 0
  /\ Len(state.savedRecords) = 2
  /\ localStorage = saveState(state)

(***************************************************************************)
(* Properties of the transaction ids (SpecLedger).                          *)
(***************************************************************************)
\* C26 (transaction ids are unique): in every reachable state the live
\* transactions have pairwise distinct ids, and a step that deletes by id
\* removes exactly one transaction.
C26_UniqueTransactionIds ==
  /\ [](\A i \in DOMAIN liveTransactions, j \in DOMAIN liveTransactions :
          liveTransactions[i].id = liveTransactions[j].id => i = j)
  /\ [][(call'.op \in {"handleDeleteTransactionById", "deleteTransaction"}
           /\ liveTransactions' # liveTransactions) =>
          Len(liveTransactions') = Len(liveTransactions) - 1]_vars

\* handleAddTransaction has just added a second transaction whose id, drawn
\* at random, is the id of the first.
C26_Witness ==
  /\ script = "part_000"
  /\ call.op = "handleAddTransaction"
  /\ call.says = "toast"
  /\ Len(applicationState.transactions) = 2
  /\ applicationState.transactions[1].id = applicationState.transactions[2].id

(***************************************************************************)
(* Liveness of the archival engine (SpecLive).                              *)
(***************************************************************************)
\* The values the payday takes under SpecLive: the default and those typed.
LivePaydays == {num(1)} \cup {Number(input) : input \in LiveInputs.paydays}

\* C28 (no terminal state): from every reachable state that has a month of
\* the clock still ahead, with time going on and the tick run on every date
\* whose day of the month is the payday, as long as the payday is kept a seal
\* occurs again: the archive list gets longer and the live budget and ledger
\* are empty again.  No state disables the seals to come.
C28_NoTerminalState ==
  \A p \in LivePaydays :
    \A n \in 0..(LiveMaxArchives - 1) :
      (/\ applicationState.payday = p
       /\ today.month = StartMonth
       /\ Len(applicationState.archivedPeriods) = n)
        ~> (\/ applicationState.payday # p
            \/ /\ Len(applicationState.archivedPeriods) > n
               /\ applicationState.transactions = <<>>
               /\ applicationState.budgetAmount = 0)

\* Payday 4.5: the clock has come to its last date, the tick has just run on
\* it and declined, and the transaction made in December is still live: no
\* period was sealed on the way.
C28_Witness ==
  /\ applicationState.payday = num(4) + 5
  /\ today = [NewDate(StartYear, StartMonth + MaxMonths - 1, 5) EXCEPT !.hours = 12]
  /\ call.op = "archiveIfNeededAndPerformAutomatically"
  /\ call.says = ""
  /\ applicationState.archivedPeriods = <<>>
  /\ applicationState.transactions # <<>>
  /\ NewDateOf(applicationState.transactions[1].date).month = StartMonth

(***************************************************************************)
(* The mark of the last sealed period and the list of sealed records.      *)
(***************************************************************************)

\* The period id of the day on which a record was sealed: a seal happens on a
\* payday, so the period that starts on that day is the one keyed by its month.
sealedPeriodId(record) ==
  YearMonthKey(NewDateOf(record.dateArchived).year, NewDateOf(record.dateArchived).month)

\* C30 (mark and archive list): in every reachable state lastArchivePeriodId
\* is null exactly when archivedPeriods is empty, and when it is not null it is
\* the period id for which the last record of archivedPeriods was sealed; and
\* no step other than a sealing tick changes lastArchivePeriodId.
C30_MarkMatchesArchives ==
  /\ [](LET a == applicationState.archivedPeriods
            mark == applicationState.lastArchivePeriodId IN
        /\ (mark = null) <=> (a = <<>>)
        /\ a # <<>> => mark = sealedPeriodId(a[Len(a)]))
  /\ [][applicationState'.lastArchivePeriodId # applicationState.lastArchivePeriodId
          => /\ call'.op = "archiveIfNeededAndPerformAutomatically"
             /\ call'.says = "toast"
             /\ Len(applicationState'.archivedPeriods)
                  = Len(applicationState.archivedPeriods) + 1]_vars

\* Two records are sealed, the mark is the period of the second and not of the
\* first, and the step just taken is a reset of the history, which left it.
C30_Witness ==
  /\ call.op = "resetHistoryClick"
  /\ call.says = "toast"
  /\ Len(applicationState.archivedPeriods) = 2
  /\ applicationState.lastArchivePeriodId = sealedPeriodId(applicationState.archivedPeriods[2])
  /\ applicationState.lastArchivePeriodId # sealedPeriodId(applicationState.archivedPeriods[1])

====
